---- MODULE Spec2Model ----
(***************************************************************************)
(* Model of the search and retrieval core of mcp-klipper-docs:             *)
(* SearchEngine (src/src/search.ts), handleError (src/src/errors.ts), the  *)
(* search configuration (config.ts, concatenated in src/src/errors.ts) and *)
(* the document maps that DocumentParser (src/src/parser.ts) and other     *)
(* callers hand to buildIndex.                                             *)
(*                                                                         *)
(* Strings are sequences of one-character strings, so that the query       *)
(* lexer of the lunr library, which search.ts:69 calls with the raw query  *)
(* text, is modelled character by character.  Scores are integers in       *)
(* units of 1/1000 (lunr rounds every field-vector entry to 3 decimals).   *)
(* JavaScript null/undefined is the empty sequence None, a present value   *)
(* x is <<x>>.                                                             *)
(***************************************************************************)
EXTENDS Integers, Sequences, FiniteSets, TLC

VARIABLES
    heap,         \* contents of the Map objects that exist: handle -> set of document ids
    index,        \* SearchEngine.index: None, or <<[snap |-> ids added to the lunr builder]>>
    docs,         \* SearchEngine.docs: the handle of the Map the engine refers to
    lastIndexed,  \* SearchEngine.lastIndexed: None, or <<timestamp>>
    now,          \* the clock read by new Date()
    ret           \* outcome of the call that has just run, until its caller takes it

vars == <<heap, index, docs, lastIndexed, now, ret>>

------------------------------------------------------------------------------
(* Bounds *)

MaxDocs == 3        \* document ids are 1..MaxDocs
MaxQueryLen == 3    \* query strings have at most this many characters
MaxBuilds == 2      \* successful builds per behaviour (caps the clock)
MaxCorpus == 28     \* documents of a corpus whose field weights are compared
MaxTitleLen == 28   \* tokens of the longest title of such a corpus
MaxBodyLen == 16    \* tokens of the bodies of such a corpus
MaxPieces == 4      \* pieces a relative path is put together from
MaxLines == 4       \* lines of a text a configuration section is extracted from
MaxChunks == 6      \* 50-character pieces of a body a snippet is taken from
MaxTerms == 3       \* terms of the query a snippet is taken for
MaxFiles == 2       \* files of a directory tree handed to parseDirectory

------------------------------------------------------------------------------
(* Values *)

None == <<>>
Some(x) == <<x>>

\* Engine Map (search.ts:14), parser Map (parser.ts:15), a caller-owned Map
\* (the mockDocs of the tests).
EngineMap == "engine"
ParserMap == "parser"
CallerMap == "caller"
Handles == {EngineMap, ParserMap, CallerMap}

DocIds == 1..MaxDocs

\* The characters query strings are drawn from: two letters on which the
\* lunr pipeline (trimmer, stop-word filter, stemmer) is the identity, the
\* separators and the operator characters of the lunr query language.
Alphabet == {"k", "m"} \cup {" ", ":", "+", "-", "~", "^", "*"}

\* Section names
SecConfig == <<"c">>
SecGcodes == <<"g">>

\* The documents of the corpus, by id.  Fields hold token sequences, every
\* token a string over Letters (section: one token naming the section).
CorpusDoc(i) ==
    CASE (i - 1) % 4 = 0 ->
           [id |-> i, title |-> << <<"k">> >>,
            content |-> << <<"k">>, <<"m">>, <<"m">> >>,
            section |-> SecConfig, tags |-> <<>>, wordCount |-> 3]
      [] (i - 1) % 4 = 1 ->
           [id |-> i, title |-> << <<"m">> >>,
            content |-> << <<"m">>, <<"k">>, <<"k">> >>,
            section |-> SecGcodes, tags |-> <<>>, wordCount |-> 3]
      [] (i - 1) % 4 = 2 ->
           [id |-> i, title |-> << <<"k","m">> >>,
            content |-> << <<"m">>, <<"m">>, <<"k">>, <<"m">>, <<"m">> >>,
            section |-> SecGcodes, tags |-> << <<"k","m">> >>, wordCount |-> 5]
      [] OTHER ->
           [id |-> i, title |-> << <<"k">> >>,
            content |-> << <<"k">>, <<"m">>, <<"m">> >>,
            section |-> SecGcodes, tags |-> <<>>, wordCount |-> 3]

------------------------------------------------------------------------------
(* The lunr library as search.ts uses it: the index built at search.ts:26-47 *)
(* and Index.search, called at search.ts:69.                                *)

\* this.field(...) declarations in registration order, with their boosts
\* (search.ts:29-32)
Fields == <<"title", "content", "section", "tags">>

Boost(f) ==
    CASE f = "title" -> 10
      [] f = "content" -> 1
      [] f = "section" -> 5
      [] f = "tags" -> 3

\* The object handed to this.add for a document (search.ts:39-45), tokenised
FieldTokens(d, f) ==
    CASE f = "title" -> d.title
      [] f = "content" -> d.content
      [] f = "section" -> << d.section >>
      [] f = "tags" -> d.tags

\* The field names as query text, in the order of Fields
FieldNameSeq ==
    << <<"t","i","t","l","e">>, <<"c","o","n","t","e","n","t">>,
       <<"s","e","c","t","i","o","n">>, <<"t","a","g","s">> >>

\* docsArray (search.ts:24): the documents in the order they are added
RECURSIVE SetToSeq(_)
SetToSeq(S) ==
    IF S = {} THEN <<>>
    ELSE LET m == CHOOSE x \in S : \A y \in S : x <= y
         IN <<m>> \o SetToSeq(S \ {m})

DocsArray(ids) == SetToSeq(ids)

\* term frequency of token w in field f of document i
RECURSIVE Count(_, _)
Count(s, w) ==
    IF s = <<>> THEN 0
    ELSE (IF Head(s) = w THEN 1 ELSE 0) + Count(Tail(s), w)

TF(i, f, w) == Count(FieldTokens(CorpusDoc(i), f), w)

FieldLength(i, f) == Len(FieldTokens(CorpusDoc(i), f))

\* Builder accumulator: the summed length of field f over the documents
RECURSIVE TotalFieldLength(_, _)
TotalFieldLength(ids, f) ==
    IF ids = {} THEN 0
    ELSE LET x == CHOOSE y \in ids : TRUE
         IN FieldLength(x, f) + TotalFieldLength(ids \ {x}, f)

FieldIdx == 1..Len(Fields)

\* the inverted index: the terms of the snapshot
Vocabulary(snap) ==
    UNION { { FieldTokens(CorpusDoc(i), Fields[k])[j] :
                j \in 1..Len(FieldTokens(CorpusDoc(i), Fields[k])) } :
            i \in snap, k \in FieldIdx }

\* number of (field, document) postings of term w

\* lunr.idf = ln(1 + |(N - n + 0.5) / (n + 0.5)|) in units of 1/10000,
\* tabulated for N = 0..6 documents (rows) and n = 1..28 postings (columns)
IdfTable ==
    << <<2877, 4700, 5390, 5754, 5978, 6131, 6242, 6325, 6391, 6444, 6487, 6523, 6554, 6581, 6604, 6624, 6642, 6657, 6672, 6685, 6696, 6707, 6716, 6725, 6733, 6741, 6748, 6754>>,
       <<2877, 1823, 3567, 4418, 4925, 5261, 5500, 5680, 5819, 5931, 6022, 6098, 6162, 6217, 6265, 6306, 6343, 6376, 6405, 6431, 6455, 6477, 6497, 6515, 6531, 6547, 6561, 6574>>,
       <<6931, 1823, 1335, 2877, 3747, 4308, 4700, 4990, 5213, 5390, 5534, 5653, 5754, 5839, 5914, 5978, 6035, 6086, 6131, 6172, 6208, 6242, 6272, 6300, 6325, 6349, 6371, 6391>>,
       <<9808, 4700, 1335, 1054, 2412, 3254, 3830, 4249, 4568, 4818, 5021, 5188, 5328, 5447, 5550, 5639, 5718, 5787, 5849, 5905, 5955, 6001, 6042, 6080, 6115, 6147, 6176, 6204>>,
       <<12040, 6931, 3567, 1054, 870, 2076, 2877, 3448, 3878, 4212, 4480, 4700, 4884, 5039, 5173, 5288, 5390, 5480, 5559, 5631, 5695, 5754, 5807, 5855, 5900, 5941, 5978, 6013>>,
       <<13863, 8755, 5390, 2877, 870, 741, 1823, 2578, 3137, 3567, 3909, 4187, 4418, 4613, 4780, 4925, 5051, 5162, 5261, 5349, 5429, 5500, 5566, 5625, 5680, 5730, 5776, 5819>>,
       <<15404, 10296, 6931, 4418, 2412, 741, 645, 1625, 2336, 2877, 3302, 3646, 3930, 4169, 4372, 4547, 4700, 4834, 4953, 5059, 5155, 5241, 5319, 5390, 5455, 5515, 5570, 5621>> >>

\* Builder.createFieldVectors: the entry of term w in the vector of field f
\* of document i, idf * (k1+1)tf / (k1(1 - b + b L/avgL) + tf) * boost with
\* k1 = 1.2, b = 0.75, avgL = T/N, rounded to 3 decimals (units of 1/1000)
FieldWeight(idf, boost, tf, L, T, N) ==
    LET den == 3 * T + 9 * L * N + 10 * tf * T
    IN IF tf = 0 THEN 0
       ELSE (idf * boost * 22 * tf * T + 5 * den) \div (10 * den)

FieldVector(snap, i, f, w) ==
    FieldWeight(IdfTable[Cardinality(snap) + 1][
                    Cardinality({ p \in snap \X FieldIdx :
                                    TF(p[1], Fields[p[2]], w) > 0 })],
                Boost(f), TF(i, f, w), FieldLength(i, f),
                TotalFieldLength(snap, f), Cardinality(snap))

\* lunr.idf of a term with one posting, for N = 1..32 documents, in units
\* of 1/10000 (the first column of IdfTable, continued)
IdfSingle ==
    <<2877, 6931, 9808, 12040, 13863, 15404, 16740, 17918, 18971, 19924, 20794,
      21595, 22336, 23026, 23671, 24277, 24849, 25390, 25903, 26391, 26856,
      27300, 27726, 28134, 28526, 28904, 29267, 29618, 29957, 30285, 30603,
      30910>>

------------------------------------------------------------------------------
(* lunr.QueryLexer: the query text to lexemes *)

\* sliceString: the characters from start up to, not including, pos
Lexeme(t, q, start, pos) == [type |-> t, str |-> (SubSeq(q, start, pos - 1))]

\* acceptDigitRun: the position after the digits that start at pos
RECURSIVE AcceptDigitRun(_, _)
AcceptDigitRun(q, pos) ==
    IF pos <= Len(q) /\ q[pos] \in {"0", "1", "2", "3", "4", "5", "6", "7", "8", "9"} THEN AcceptDigitRun(q, pos + 1)
    ELSE pos

\* lunr.tokenizer.separator /[\s\-]+/
\* lexText with lexField, lexTerm, lexEditDistance, lexBoost and lexEOS
\* inlined; start is the first character of the pending lexeme, pos the
\* next character to read, out the lexemes emitted so far
RECURSIVE LexText(_, _, _, _)
LexText(q, start, pos, out) ==
    IF pos > Len(q)
    THEN \* lexEOS
         IF pos - start > 0 THEN Append(out, Lexeme("TERM", q, start, pos))
         ELSE out
    ELSE LET c == q[pos]
             width == pos + 1 - start
             flushed == IF pos - start > 0
                        THEN Append(out, Lexeme("TERM", q, start, pos))
                        ELSE out
         IN IF c = ":"
            THEN \* lexField: backup, emit FIELD, ignore the colon
                 LexText(q, pos + 1, pos + 1,
                         Append(out, Lexeme("FIELD", q, start, pos)))
            ELSE IF c = "~" \/ c = "^"
            THEN \* backup, emit a pending TERM, ignore the operator,
                 \* accept the digits, emit EDIT_DISTANCE or BOOST
                 LET e == AcceptDigitRun(q, pos + 1)
                     t == IF c = "~" THEN "EDIT_DISTANCE" ELSE "BOOST"
                 IN LexText(q, e, e, Append(flushed, Lexeme(t, q, pos + 1, e)))
            ELSE IF (c = "+" \/ c = "-") /\ width = 1
            THEN \* a leading + or - is a presence operator
                 LexText(q, pos + 1, pos + 1,
                         Append(out, Lexeme("PRESENCE", q, start, pos + 1)))
            ELSE IF c \in {" ", "-"}
            THEN \* lexTerm: emit the pending TERM, ignore the separator
                 IF pos + 1 <= Len(q)
                 THEN LexText(q, pos + 1, pos + 1, flushed)
                 ELSE flushed
            ELSE LexText(q, start, pos + 1, out)

------------------------------------------------------------------------------
(* lunr.QueryParser: lexemes to clauses, or a QueryParseError *)

ParseOk(clauses) == [ok |-> TRUE, clauses |-> clauses, message |-> "none"]
ParseError(msg) == [ok |-> FALSE, clauses |-> <<>>, message |-> msg]

\* a clause under construction; Query.clause fills in the defaults
NewClause == [presence |-> "OPTIONAL", fields |-> None, term |-> None,
              usePipeline |-> TRUE]

RECURSIVE ParseClause(_, _, _)
RECURSIVE ParsePresence(_, _, _)
RECURSIVE ParseField(_, _, _, _)
RECURSIVE ParseTerm(_, _, _, _)
RECURSIVE AfterTerm(_, _, _, _)

\* parseClause: lx the lexemes, i the next lexeme, done the finished clauses
ParseClause(lx, i, done) ==
    IF i > Len(lx) THEN ParseOk(done)
    ELSE CASE lx[i].type = "PRESENCE" -> ParsePresence(lx, i, done)
           [] lx[i].type = "FIELD" -> ParseField(lx, i, NewClause, done)
           [] lx[i].type = "TERM" -> ParseTerm(lx, i, NewClause, done)
           [] OTHER -> ParseError("expected either a field or a term")

ParsePresence(lx, i, done) ==
    LET cl == [NewClause EXCEPT !.presence =
                  IF lx[i].str = <<"-">> THEN "PROHIBITED" ELSE "REQUIRED"]
    IN IF i + 1 > Len(lx)
       THEN ParseError("expecting term or field, found nothing")
       ELSE CASE lx[i + 1].type = "FIELD" -> ParseField(lx, i + 1, cl, done)
              [] lx[i + 1].type = "TERM" -> ParseTerm(lx, i + 1, cl, done)
              [] OTHER -> ParseError("expecting term or field")

ParseField(lx, i, cl, done) ==
    IF lx[i].str \notin { FieldNameSeq[k] : k \in 1..Len(FieldNameSeq) }
    THEN ParseError("unrecognised field")
    ELSE IF i + 1 > Len(lx)
    THEN ParseError("expecting term, found nothing")
    ELSE IF lx[i + 1].type = "TERM"
    THEN ParseTerm(lx, i + 1, [cl EXCEPT !.fields = Some(lx[i].str)], done)
    ELSE ParseError("expecting term")

\* the switch on the lexeme after a term, shared by parseTerm,
\* parseEditDistance and parseBoost: cl is the clause being built, i the
\* lexeme after it.  parseInt of an empty digit run is NaN.  (Alphabet has
\* no digit, so an edit distance or boost is never numeric here and fuzzy
\* expansion is not modelled.)
AfterTerm(lx, i, cl, done) ==
    LET next == Append(done, cl)
    IN IF i > Len(lx) THEN ParseOk(next)
       ELSE CASE lx[i].type = "TERM" -> ParseTerm(lx, i, NewClause, next)
              [] lx[i].type = "FIELD" -> ParseField(lx, i, NewClause, next)
              [] lx[i].type = "PRESENCE" -> ParsePresence(lx, i, next)
              [] lx[i].type = "EDIT_DISTANCE" ->
                   IF lx[i].str = <<>>
                   THEN ParseError("edit distance must be numeric")
                   ELSE AfterTerm(lx, i + 1, cl, done)
              [] lx[i].type = "BOOST" ->
                   IF lx[i].str = <<>>
                   THEN ParseError("boost must be numeric")
                   ELSE AfterTerm(lx, i + 1, cl, done)
              [] OTHER -> ParseError("unexpected lexeme type")

ParseTerm(lx, i, cl, done) ==
    AfterTerm(lx, i + 1,
              [cl EXCEPT !.term = Some(lx[i].str),
                         !.usePipeline =
                            ~ \E j \in 1..Len(lx[i].str) : lx[i].str[j] = "*"],
              done)

------------------------------------------------------------------------------
(* lunr.Index.query: clauses to ranked results *)

\* TokenSet.fromString / intersect: "*" in the pattern matches any run
RECURSIVE GlobMatch(_, _)
GlobMatch(p, w) ==
    IF p = <<>> THEN w = <<>>
    ELSE IF Head(p) = "*"
    THEN GlobMatch(Tail(p), w) \/ (w # <<>> /\ GlobMatch(p, Tail(w)))
    ELSE w # <<>> /\ Head(w) = Head(p) /\ GlobMatch(Tail(p), Tail(w))

\* the search pipeline (the stemmer), the identity on strings without
\* vowels, "s" or "y", which is all Alphabet can spell
\* expandedTerms: the index terms the clause's term stands for
ExpandedTerms(snap, cl) ==
    { w \in Vocabulary(snap) : GlobMatch((IF cl.usePipeline THEN (cl.term[1]) ELSE cl.term[1]), w) }

\* clause.fields, as indexes into Fields
ClauseFields(cl) ==
    IF cl.fields = None THEN FieldIdx
    ELSE { k \in FieldIdx : FieldNameSeq[k] = cl.fields[1] }

\* clauseMatches: the documents holding an expanded term in a clause field
ClauseDocs(snap, cl) ==
    { i \in snap : \E w \in ExpandedTerms(snap, cl), k \in ClauseFields(cl) :
                      TF(i, Fields[k], w) > 0 }

Scored(cls) == { c \in 1..Len(cls) : cls[c].presence # "PROHIBITED" }

\* Query.isNegated: every clause is prohibited (also when there is none)
IsNegated(cls) == Scored(cls) = {}

\* the pairs <<c, w>> of a scored clause c and a term w it expands to
Expansions(snap, cls) ==
    { p \in { <<c, w>> : c \in Scored(cls), w \in Vocabulary(snap) } :
        p[2] \in ExpandedTerms(snap, cls[p[1]]) }

\* queryVectors: the triples <<k, w, n>> where n > 0 is the summed boost
\* (1 per clause) of the scored clauses that expand to term w in field k
QueryVectors(cls, exps) ==
    LET Weight(k, w) ==
            Cardinality({ p \in exps : p[2] = w /\ k \in ClauseFields(cls[p[1]]) })
    IN { t \in { <<k, p[2], Weight(k, p[2])>> : k \in FieldIdx, p \in exps } :
           t[3] > 0 }

\* floor of the square root, by bisection
RECURSIVE SqrtBetween(_, _, _)
SqrtBetween(n, lo, hi) ==
    IF lo >= hi THEN lo
    ELSE LET mid == (lo + hi + 1) \div 2
         IN IF mid * mid <= n THEN SqrtBetween(n, mid, hi)
            ELSE SqrtBetween(n, lo, mid - 1)

\* Vector.magnitude of the query vector of field k, in units of 1/1000
RECURSIVE SumSquares(_)
SumSquares(ts) ==
    IF ts = {} THEN 0
    ELSE LET t == CHOOSE x \in ts : TRUE
         IN t[3] * t[3] + SumSquares(ts \ {t})

MagnitudeMilli(qv, k) ==
    LET m2 == SumSquares({ t \in qv : t[1] = k })
    IN SqrtBetween(m2 * 1000000, 0, 1000 * m2)

\* Vector.dot of the query vector with the field vectors of document i
RECURSIVE Dot(_, _, _)
Dot(snap, i, ts) ==
    IF ts = {} THEN 0
    ELSE LET t == CHOOSE x \in ts : TRUE
         IN t[3] * FieldVector(snap, i, Fields[t[1]], t[2]) + Dot(snap, i, ts \ {t})

\* Vector.similarity: dot / magnitude || 0
Similarity(snap, qv, i, k) ==
    LET mag == MagnitudeMilli(qv, k)
    IN IF mag = 0 THEN 0
       ELSE (Dot(snap, i, { t \in qv : t[1] = k }) * 1000) \div mag

\* the score of a matching document: the sum over its fields
Score(snap, qv, i) ==
    Similarity(snap, qv, i, 1) + Similarity(snap, qv, i, 2)
    + Similarity(snap, qv, i, 3) + Similarity(snap, qv, i, 4)

\* the order in which TokenSet.toArray lists terms: a depth-first walk
\* that takes the last edge first
RECURSIVE TermBefore(_, _)
TermBefore(a, b) ==
    IF a = <<>> THEN b # <<>>
    ELSE IF b = <<>> THEN FALSE
    ELSE IF Head(a) = Head(b) THEN TermBefore(Tail(a), Tail(b))
    ELSE \/ Head(a) = "m" /\ Head(b) # "m"
         \/ Head(a) = "k" /\ Head(b) \notin {"m", "k"}
         \/ Head(a) = "g" /\ Head(b) \notin {"m", "k", "g"}

\* the documents with an entry in matchingFields
Matching(snap, cls) ==
    IF IsNegated(cls) THEN snap
    ELSE UNION { ClauseDocs(snap, cls[c]) : c \in Scored(cls) }

AllRequired(snap, cls, i) ==
    \A c \in 1..Len(cls) :
        cls[c].presence = "REQUIRED" => i \in ClauseDocs(snap, cls[c])

AllProhibited(snap, cls, i) ==
    \E c \in 1..Len(cls) :
        cls[c].presence = "PROHIBITED" /\ i \in ClauseDocs(snap, cls[c])

Candidates(snap, cls) ==
    { i \in Matching(snap, cls) :
        AllRequired(snap, cls, i) /\ ~ AllProhibited(snap, cls, i) }

\* the position at which document i first enters matchingFields: by clause,
\* then expanded term, then field, then the order the documents were added
MatchKey(snap, cls, exps, i) ==
    IF IsNegated(cls) THEN i
    ELSE LET V == Cardinality(Vocabulary(snap)) + 1
             hit == { ((t[1][1] * V + (Cardinality({ v \in Vocabulary(snap) : TermBefore(v, t[1][2]) }))) * 5 + t[2]) * (MaxDocs + 2) + i :
                        t \in { u \in { <<p, k>> : p \in exps, k \in FieldIdx } :
                                  /\ u[2] \in ClauseFields(cls[u[1][1]])
                                  /\ TF(i, Fields[u[2]], u[1][2]) > 0 } }
         IN CHOOSE x \in hit : \A y \in hit : x <= y

\* results.sort((a, b) => b.score - a.score), a stable sort; ms holds a
\* triple <<ref, score, position>> for every match
RECURSIVE SortByScore(_)
SortByScore(ms) ==
    IF ms = {} THEN <<>>
    ELSE LET top == CHOOSE a \in ms : \A b \in ms :
                        \/ a[2] > b[2]
                        \/ a[2] = b[2] /\ a[3] <= b[3]
         IN << [ref |-> top[1], score |-> top[2]] >> \o SortByScore(ms \ {top})

\* Index.query
Query(snap, cls) ==
    LET exps == Expansions(snap, cls)
        qv == QueryVectors(cls, exps)
    IN SortByScore({ <<i, Score(snap, qv, i), MatchKey(snap, cls, exps, i)>> :
                       i \in Candidates(snap, cls) })

\* Index.search(queryString): parse, then query
IndexSearch(snap, q) ==
    LET p == ParseClause(LexText(q, 1, 1, <<>>), 1, <<>>)
    IN IF p.ok
       THEN [ok |-> TRUE, message |-> "none", results |-> Query(snap, p.clauses)]
       ELSE [ok |-> FALSE, message |-> p.message, results |-> <<>>]

------------------------------------------------------------------------------
(* Errors (errors.ts) and configuration (config.ts) *)

\* config.search.maxResults and config.search.minScore (0.1, in 1/1000)
MaxResults == 10
MinScore == 100

\* new SearchError(message, context): a KlipperError of type SEARCH_ERROR
SearchError(message, context) ==
    [class |-> "KlipperError", name |-> "SearchError", type |-> "SEARCH_ERROR",
     message |-> message, context |-> context, originalError |-> "none"]

\* an error that is not a KlipperError
PlainError(name, message) ==
    [class |-> "Error", name |-> name, type |-> "none",
     message |-> message, context |-> "none", originalError |-> "none"]

handleErrorLossy(error, context) ==
    [class |-> "KlipperError", name |-> "KlipperError", type |-> "SYSTEM_ERROR",
     message |-> "Internal error", context |-> context, originalError |-> "none"]

handleError(error, context) ==
    IF error.class = "KlipperError" THEN error
    ELSE IF error.class = "Error"
    THEN [class |-> "KlipperError", name |-> "KlipperError", type |-> "SYSTEM_ERROR",
          message |-> error.message, context |-> context,
          originalError |-> error.name]
    ELSE [class |-> "KlipperError", name |-> "KlipperError", type |-> "SYSTEM_ERROR",
          message |-> error.message, context |-> context,
          originalError |-> "none"]

NoFault == [class |-> "none", name |-> "none", type |-> "none",
            message |-> "none", context |-> "none", originalError |-> "none"]

\* What index construction can raise inside the try block of buildIndex: a
\* TypeError from doc.metadata.tags.join on a document without a tag array,
\* a RangeError from the engine, and a KlipperError raised by the store
\* that is being iterated.
BuildFaults ==
    { PlainError("TypeError", "Cannot read properties of undefined"),
      PlainError("RangeError", "Maximum call stack size exceeded"),
      [class |-> "KlipperError", name |-> "ParsingError", type |-> "PARSING_ERROR",
       message |-> "Failed to read document", context |-> "DocumentStore",
       originalError |-> "none"] }

------------------------------------------------------------------------------
(* SearchEngine *)

Idle == [op |-> "none"]

\* this.docs.get(id): the document, or None
Get(h, id) == IF id \in heap[h] THEN Some(CorpusDoc(id)) ELSE None

\* if (options.section): a section is filtered by when it is given and is
\* not the empty string
HasSection(options) == options.section # None /\ options.section # Some(<<>>)

\* results.filter(result => this.docs.get(result.ref)?.section === options.section)
SectionFilter(rs, options) ==
    LET InSection(r) == /\ Get(docs, r.ref) # None
                        /\ Get(docs, r.ref)[1].section = options.section[1]
    IN IF HasSection(options) THEN SelectSeq(rs, InSection) ELSE rs

ScoreFilterOff(rs) == rs

\* results.filter(result => result.score >= config.search.minScore)
ScoreFilter(rs) ==
    LET AboveMin(r) == r.score >= MinScore
    IN SelectSeq(rs, AboveMin)

\* Array.prototype.slice(0, end)
Slice0(s, end) ==
    LET e == IF end < 0 THEN (IF (Len(s) + end) >= 0 THEN (Len(s) + end) ELSE 0)
             ELSE IF end > Len(s) THEN Len(s) ELSE end
    IN SubSeq(s, 1, e)

TruncateAscending(rs, limit) ==
    LET kept == Slice0(rs, limit)
    IN [n \in 1..Len(kept) |-> rs[Len(rs) + 1 - n]]

\* results.slice(0, limit)
Truncate(rs, limit) == Slice0(rs, limit)

\* const limit = options.limit || config.search.maxResults (search.ts:63)
\* the body of search after the index check (search.ts:62-112): the
\* returned results, or the error thrown
SearchBody(q, options) ==
    LET found == IndexSearch(index[1].snap, q)
        results == Truncate(ScoreFilter(SectionFilter(found.results, options)),
                            (IF options.limit = None \/ options.limit = Some(0) THEN MaxResults ELSE options.limit[1]))
        context == "SearchEngine.search"
    IN IF ~ found.ok
       THEN [status |-> "throw", results |-> <<>>,
             error |-> handleError(PlainError("QueryParseError", found.message), context)]
       ELSE IF \E n \in 1..Len(results) : Get(docs, results[n].ref) = None
       THEN [status |-> "throw", results |-> <<>>,
             error |-> handleError(SearchError("Document not found", context), context)]
       ELSE [status |-> "ok", error |-> NoFault,
             results |-> [n \in 1..Len(results) |->
                            [document |-> Get(docs, results[n].ref)[1],
                             score |-> results[n].score,
                             metadata |-> [query |-> q,
                                           totalResults |-> Len(results),
                                           filters |-> IF HasSection(options)
                                                       THEN options.section
                                                       ELSE None]]]]

\* search(query, options)
Search(q, options) ==
    /\ ret = Idle
    /\ ret' = IF index = None
              THEN [op |-> "search", query |-> q, options |-> options,
                    status |-> "throw", results |-> <<>>,
                    error |-> SearchError("Search index not initialized",
                                          "SearchEngine.search")]
              ELSE LET b == SearchBody(q, options)
                   IN [op |-> "search", query |-> q, options |-> options,
                       status |-> b.status, results |-> b.results,
                       error |-> b.error]
    /\ UNCHANGED <<heap, index, docs, lastIndexed, now>>

BuiltIndexPartial(h, fault) == Some([snap |-> heap[h]])

BuiltIndexReset(h, fault) ==
    IF fault = NoFault THEN Some([snap |-> heap[h]]) ELSE None

BuiltIndexMerged(h, fault) ==
    IF fault # NoFault THEN index
    ELSE Some([snap |-> heap[h] \cup (IF index = None THEN {} ELSE index[1].snap)])

\* this.index after the statement this.index = lunr(...) (search.ts:26-47):
\* the index over the documents of h, or, when construction raises, the
\* index there was (the assignment is not reached)
BuiltIndex(h, fault) ==
    IF fault = NoFault THEN Some([snap |-> heap[h]]) ELSE index

\* buildIndex(documents): h is the Map passed, fault what index
\* construction raises (NoFault: nothing)
BuildIndex(h, fault) ==
    /\ ret = Idle
    /\ docs' = h
    /\ index' = BuiltIndex(h, fault)
    /\ IF fault = NoFault
       THEN /\ now <= MaxBuilds
            /\ lastIndexed' = Some(now)
            /\ now' = now + 1
            /\ ret' = [op |-> "buildIndex", documents |-> h, fault |-> fault,
                       status |-> "ok", error |-> NoFault]
       ELSE /\ ret' = [op |-> "buildIndex", documents |-> h, fault |-> fault,
                       status |-> "throw",
                       error |-> handleError(fault, "SearchEngine.buildIndex")]
            /\ UNCHANGED <<lastIndexed, now>>
    /\ UNCHANGED heap

\* getDocument(id)
GetDocument(id) ==
    /\ ret = Idle
    /\ ret' = [op |-> "getDocument", id |-> id, status |-> "ok",
               value |-> Get(docs, id)]
    /\ UNCHANGED <<heap, index, docs, lastIndexed, now>>

\* getAllDocuments(): Array.from(this.docs.values())
GetAllDocuments ==
    /\ ret = Idle
    /\ ret' = [op |-> "getAllDocuments", status |-> "ok",
               value |-> [n \in 1..Cardinality(heap[docs]) |->
                            CorpusDoc(DocsArray(heap[docs])[n])]]
    /\ UNCHANGED <<heap, index, docs, lastIndexed, now>>

\* getDocumentsBySection(section)
GetDocumentsBySection(section) ==
    LET InSection(d) == d.section = section
        all == [n \in 1..Cardinality(heap[docs]) |->
                  CorpusDoc(DocsArray(heap[docs])[n])]
    IN /\ ret = Idle
       /\ ret' = [op |-> "getDocumentsBySection", section |-> section,
                  status |-> "ok", value |-> SelectSeq(all, InSection)]
       /\ UNCHANGED <<heap, index, docs, lastIndexed, now>>

SectionsPerDocument(ids) ==
    [n \in 1..Cardinality(ids) |-> CorpusDoc(DocsArray(ids)[n]).section]

\* getSections(): the distinct section names, sorted
SortedSections(ids) ==
    LET present == { CorpusDoc(i).section : i \in ids }
    IN (IF SecConfig \in present THEN << SecConfig >> ELSE <<>>)
       \o (IF SecGcodes \in present THEN << SecGcodes >> ELSE <<>>)

RECURSIVE TotalWords(_)
TotalWords(ids) ==
    IF ids = {} THEN 0
    ELSE LET x == CHOOSE y \in ids : TRUE
         IN CorpusDoc(x).wordCount + TotalWords(ids \ {x})

\* getSections()
GetSections ==
    /\ ret = Idle
    /\ ret' = [op |-> "getSections", status |-> "ok",
               value |-> SortedSections(heap[docs])]
    /\ UNCHANGED <<heap, index, docs, lastIndexed, now>>

GetStatsStamping ==
    /\ ret = Idle
    /\ ret' = [op |-> "getStats", status |-> "ok",
               value |-> [totalDocuments |-> Cardinality(heap[docs]),
                          totalWords |-> TotalWords(heap[docs]),
                          lastIndexed |-> IF lastIndexed # None THEN lastIndexed[1]
                                          ELSE now,
                          sections |-> SortedSections(heap[docs])]]
    /\ lastIndexed' = IF lastIndexed # None THEN lastIndexed ELSE Some(now)
    /\ UNCHANGED <<heap, index, docs, now>>

\* getStats()
GetStats ==
    /\ ret = Idle
    /\ ret' = [op |-> "getStats", status |-> "ok",
               value |-> [totalDocuments |-> Cardinality(heap[docs]),
                          totalWords |-> TotalWords(heap[docs]),
                          lastIndexed |-> IF lastIndexed # None THEN lastIndexed[1]
                                          ELSE now,
                          sections |-> SortedSections(heap[docs])]]
    /\ UNCHANGED <<heap, index, docs, lastIndexed, now>>

\* isReady()
isReady == index # None

\* a call of isReady()
IsReady ==
    /\ ret = Idle
    /\ ret' = [op |-> "isReady", status |-> "ok", value |-> isReady]
    /\ UNCHANGED <<heap, index, docs, lastIndexed, now>>

\* the caller takes the outcome of the call
Return ==
    /\ ret # Idle
    /\ ret' = Idle
    /\ UNCHANGED <<heap, index, docs, lastIndexed, now>>

------------------------------------------------------------------------------
(* The owners of the document maps *)

\* DocumentParser.parseDirectory over a directory holding the files of
\* `files`: parseFile sets each parsed document into this.docs
ParseDirectory(files) ==
    /\ ret = Idle
    /\ heap' = [heap EXCEPT ![ParserMap] = @ \cup files]
    /\ UNCHANGED <<index, docs, lastIndexed, now, ret>>

\* DocumentParser.clear
ParserClear ==
    /\ ret = Idle
    /\ heap[ParserMap] # {}
    /\ heap' = [heap EXCEPT ![ParserMap] = {}]
    /\ UNCHANGED <<index, docs, lastIndexed, now, ret>>

\* a caller fills a Map of its own: mockDocs.set(id, document)
CallerSet(id) ==
    /\ ret = Idle
    /\ id \notin heap[CallerMap]
    /\ heap' = [heap EXCEPT ![CallerMap] = @ \cup {id}]
    /\ UNCHANGED <<index, docs, lastIndexed, now, ret>>

------------------------------------------------------------------------------
(* Inputs *)

RECURSIVE StringsUpTo(_)
StringsUpTo(n) ==
    IF n = 0 THEN { <<>> }
    ELSE LET shorter == StringsUpTo(n - 1)
         IN shorter \cup { Append(s, c) : s \in shorter, c \in Alphabet }

AllOptions ==
    [limit : { None } \cup { Some(n) : n \in -1..MaxDocs },
     section : { None, Some(<<>>), Some(SecConfig), Some(SecGcodes), Some(<<"z">>) }]
\* one query that parses and one that the query parser rejects
FewQueries == { <<"k">>, <<":">> }

FewOptions == { [limit |-> None, section |-> None],
                [limit |-> Some(1), section |-> Some(SecGcodes)] }

------------------------------------------------------------------------------
(* Specifications *)

Init ==
    /\ heap = [h \in Handles |-> {}]
    /\ index = None
    /\ docs = EngineMap
    /\ lastIndexed = None
    /\ now = 1
    /\ ret = Idle

\* the engine's life: maps filled and cleared by their owners, builds that
\* succeed or fail, reads
Next ==
    \/ \E files \in SUBSET DocIds : ParseDirectory(files)
    \/ ParserClear
    \/ \E id \in DocIds : CallerSet(id)
    \/ \E h \in {ParserMap, CallerMap}, fault \in BuildFaults \cup {NoFault} : BuildIndex(h, fault)
    \/ \E q \in FewQueries, o \in FewOptions : Search(q, o)
    \/ \E id \in DocIds : GetDocument(id)
    \/ GetAllDocuments
    \/ \E section \in {SecConfig, SecGcodes} : GetDocumentsBySection(section)
    \/ GetSections
    \/ GetStats
    \/ IsReady
    \/ Return

Spec == Init /\ [][Next]_vars

\* every query string of at most MaxQueryLen characters
\* the server's order (initialize, search.ts:813-839): the documentation is
\* parsed, then the index is built from the parser's map, then requests
\* are served; here every query string is searched for
NextQuery ==
    \/ \E files \in SUBSET DocIds : lastIndexed = None /\ ParseDirectory(files)
    \/ lastIndexed = None /\ BuildIndex(ParserMap, NoFault)
    \/ \E q \in StringsUpTo(MaxQueryLen) : index # None /\ Search(q, [limit |-> None, section |-> None])
    \/ Return

SpecQuery == Init /\ [][NextQuery]_vars

\* queries the ranking and lifecycle specifications search with
\* the server's order, every option value searched with; the parser's map
\* may be cleared while the index is in use
NextRank ==
    \/ \E files \in SUBSET DocIds : lastIndexed = None /\ ParseDirectory(files)
    \/ lastIndexed = None /\ BuildIndex(ParserMap, NoFault)
    \/ index # None /\ ParserClear
    \/ \E q \in { <<>>, <<"k">>, <<"m">>, <<"k", " ", "m">>, <<"*">>, <<"-", "k">>, <<":">> }, o \in AllOptions : index # None /\ Search(q, o)
    \/ Return

SpecRank == Init /\ [][NextRank]_vars

\* the score Index.query gives D for the one-term query w, D matching in one
\* field with weight fw: the query vector holds w with weight 1
OneTermScore(fw) == (1 * fw * 1000) \div SqrtBetween(1 * 1000000, 0, 1000)

\* buildIndex over the corpus, then search(t) and search(b): the scores of D
Weigh ==
    /\ ret.op = "corpus"
    /\ LET c == ret.corpus
           idf == IdfSingle[c.n]
       IN ret' = [op |-> "weigh", corpus |-> c,
                  title |-> OneTermScore(FieldWeight(idf, Boost("title"), c.tf,
                                c.titleLen, c.titleLen + (c.n - 1), c.n)),
                  body |-> OneTermScore(FieldWeight(idf, Boost("content"), c.tf,
                                c.tf, c.tf + (c.n - 1) * c.bodyLen, c.n))]
    /\ UNCHANGED <<heap, index, docs, lastIndexed, now>>

\* Field weights compared.  A corpus of n documents: document D has a title
\* of titleLen tokens holding token t tf times and a body that is token b
\* tf times; every other document has a one-token title and a body of
\* bodyLen tokens, none of them t or b.  Both t and b have one posting.
InitWeight ==
    /\ heap = [h \in Handles |-> {}]
    /\ index = None
    /\ docs = EngineMap
    /\ lastIndexed = None
    /\ now = 1
    /\ ret \in { [op |-> "corpus", corpus |-> c] : c \in { x \in [n : 1..MaxCorpus, titleLen : 1..MaxTitleLen,
                            bodyLen : 1..MaxBodyLen, tf : 1..2] :
                         x.titleLen >= x.tf } }

NextWeight == Weigh

SpecWeight == InitWeight /\ [][NextWeight]_vars

------------------------------------------------------------------------------
(* DocumentParser.parseFile: the identifier of a document *)

DotMd == <<".", "m", "d">>

\* what relative paths are put together from: a letter, the extension, the
\* path separator, and a backslash (an ordinary character of a POSIX name)
RECURSIVE PathsOf(_)
PathsOf(n) ==
    IF n = 0 THEN { <<>> }
    ELSE LET shorter == PathsOf(n - 1)
         IN shorter \cup { s \o c : s \in shorter, c \in { <<"a">>, DotMd, <<"/">>, <<"\\">> } }

\* path.relative(basePath, filePath) of a file processDirectory hands to
\* parseFile: the name ends with ".md", no segment is empty, and no
\* directory on the way is hidden (parser.ts:42-46)
ValidPath(p) ==
    /\ Len(p) > Len(DotMd)
    /\ SubSeq(p, Len(p) - 2, Len(p)) = DotMd
    /\ p[1] # "/"
    /\ \A i \in 1..(Len(p) - 1) : p[i] = "/" => p[i + 1] # "/"
    /\ \A j \in 1..Len(p) :
          ( /\ j = 1 \/ p[j - 1] = "/"
            /\ \E i \in (j + 1)..Len(p) : p[i] = "/" )
          => p[j] # "."

RelativePaths == { p \in PathsOf(MaxPieces) : p # <<>> /\ ValidPath(p) }


\* String.prototype.replace(/\\/g, '/')
\* const id = relativePath.replace(/\\/g, '/').replace('.md', '') (parser.ts:73)
\* String.prototype.replace('.md', ''): a string pattern replaces the first
\* occurrence only
DocId(relativePath) ==
    LET p == [i \in 1..Len(relativePath) |->
                IF relativePath[i] = "\\" THEN "/" ELSE relativePath[i]]
        at == { i \in 1..(Len(p) - 2) : SubSeq(p, i, i + 2) = DotMd }
    IN IF at = {} THEN p
       ELSE LET i == CHOOSE x \in at : \A y \in at : x <= y
            IN SubSeq(p, 1, i - 1) \o SubSeq(p, i + 3, Len(p))

\* parseFile on two files of one parseDirectory: the identifiers they are
\* stored under
ParseFile ==
    /\ ret.op = "files"
    /\ ret' = [op |-> "parseFile", first |-> ret.first, second |-> ret.second,
               firstId |-> DocId(ret.first), secondId |-> DocId(ret.second)]
    /\ UNCHANGED <<heap, index, docs, lastIndexed, now>>

InitId ==
    /\ heap = [h \in Handles |-> {}]
    /\ index = None
    /\ docs = EngineMap
    /\ lastIndexed = None
    /\ now = 1
    /\ ret \in { [op |-> "files", first |-> p, second |-> q] :
                   p \in RelativePaths, q \in RelativePaths }

NextId == ParseFile

SpecId == InitId /\ [][NextId]_vars

------------------------------------------------------------------------------
(* extractConfigSection (search.ts:583-625).  A text is the sequence of its  *)
(* lines, joined by "\n"; the regular expressions are read line by line.     *)

\* optionVariants (search.ts:585-589): the option, with "_" replaced by " ",
\* with "-" replaced by "_"
OptionVariants == << "bed_mesh", "bed mesh", "bed_mesh" >>

Marker == "### [bed_mesh]"
MarkerNote == "### [bed_mesh] x"
SpacedMarker == "### [bed mesh]"
OtherMarker == "### [extruder]"
Heading2 == "## Sec"
Heading1 == "# Top"
TextLine == "foo"
Blank == ""
BareLabel == "[bed_mesh]"

RECURSIVE TextsOf(_)
TextsOf(n) ==
    IF n = 0 THEN { <<>> }
    ELSE LET shorter == TextsOf(n - 1)
         IN shorter \cup { Append(t, l) : t \in shorter, l \in { Marker, MarkerNote, SpacedMarker, OtherMarker, Heading2, Heading1, TextLine, Blank, BareLabel } }

\* the least element of a set of line numbers, or otherwise
Least(S, otherwise) ==
    IF S = {} THEN otherwise ELSE CHOOSE x \in S : \A y \in S : x <= y

\* headerPattern, group 1: the line holds "###", white space, "[", the
\* variant, the rest of the label, "]" and the rest of the line
\* where headerPattern matches first: group 1 ends with "\n", so the line
\* is not the last one; 0 when there is no match
FirstMatch(text, variant) ==
    Least({ k \in 1..(Len(text) - 1) :
              \/ variant = "bed_mesh" /\ text[k] \in { Marker, MarkerNote }
              \/ variant = "bed mesh" /\ text[k] = SpacedMarker }, 0)

\* bracketPattern, group 1: the line holds "[", the variant, the rest of the
\* label and "]", and nothing but white space after it
\* where bracketPattern matches first, likewise
FirstBareMatch(text, variant) ==
    Least({ k \in 1..(Len(text) - 1) :
              \/ variant = "bed_mesh" /\ text[k] \in { Marker, BareLabel }
              \/ variant = "bed mesh" /\ text[k] = SpacedMarker }, 0)

\* (?=\n###\s|\n##\s|$): a following line that starts with "### " or "## "
\* headerPattern.exec(content): match[1] is line k with its "\n", match[2]
\* the lines after it up to the first "\n" that a stopping line follows
\* (the "\n" that ends line k is part of match[1], so line k + 1 does not
\* stop the body)
HeaderBody(text, k) ==
    LET j == Least({ i \in (k + 2)..Len(text) :
                       text[i] \in { Marker, MarkerNote, SpacedMarker,
                                     OtherMarker, Heading2 } }, Len(text) + 1)
    IN SubSeq(text, k + 1, j - 1)

\* beforeContent.match(/\n(###[^\n]+)\n[^#]*$/): the last line before line
\* k that holds a "#", when it starts with "###" and is not the first line,
\* followed by "\n\n".  When the label is inside a marker line,
\* beforeContent ends with "### " and nothing matches.
SectionHeader(text, k) ==
    LET hashed == { i \in 1..(k - 1) :
                      text[i] \in { Marker, MarkerNote, SpacedMarker,
                                    OtherMarker, Heading2, Heading1 } }
        h == IF hashed = {} THEN 0 ELSE CHOOSE x \in hashed : \A y \in hashed : y <= x
    IN IF /\ text[k] = BareLabel
          /\ h >= 2
          /\ text[h] \in { Marker, MarkerNote, SpacedMarker, OtherMarker }
       THEN << text[h], Blank >>
       ELSE <<>>

\* (?=\n\[[a-z]|\n###|\n##|$): a following line that starts with "[" and a
\* letter, "###" or "##"
\* bracketPattern.exec(content): match[0] starts at "[" in line k; \s*\n
\* takes the blank lines that follow; the body runs from the next line to the
\* first "\n" that a stopping line follows
BracketMatch(text, k) ==
    LET s == Least({ i \in (k + 1)..Len(text) : text[i] # Blank }, Len(text) + 1)
        j == Least({ i \in (s + 1)..Len(text) :
                       text[i] \in { Marker, MarkerNote, SpacedMarker,
                                     OtherMarker, Heading2, BareLabel } },
                   Len(text) + 1)
        label == IF text[k] = SpacedMarker THEN "[bed mesh]" ELSE BareLabel
    IN << label >> \o SubSeq(text, k + 1, j - 1)

\* one turn of the loop over optionVariants: the text returned, or None
ExtractVariant(text, variant) ==
    LET k == FirstMatch(text, variant)
        b == FirstBareMatch(text, variant)
    IN IF k # 0 /\ HeaderBody(text, k) # << Blank >>
       THEN Some(<< text[k] >> \o HeaderBody(text, k))
       ELSE IF b # 0
       THEN Some(SectionHeader(text, b) \o BracketMatch(text, b))
       ELSE None

\* extractConfigSection(content, option): null is None
extractConfigSection(text) ==
    LET found == { v \in 1..Len(OptionVariants) :
                     ExtractVariant(text, OptionVariants[v]) # None }
    IN IF found = {} THEN None
       ELSE ExtractVariant(text, OptionVariants[Least(found, 0)])

ExtractConfigSection ==
    /\ ret.op = "content"
    /\ ret' = [op |-> "extractConfigSection", content |-> ret.content,
               value |-> extractConfigSection(ret.content)]
    /\ UNCHANGED <<heap, index, docs, lastIndexed, now>>

InitConfig ==
    /\ heap = [h \in Handles |-> {}]
    /\ index = None
    /\ docs = EngineMap
    /\ lastIndexed = None
    /\ now = 1
    /\ ret \in { [op |-> "content", content |-> t] : t \in TextsOf(MaxLines) }

NextConfig == ExtractConfigSection

SpecConfig == InitConfig /\ [][NextConfig]_vars

------------------------------------------------------------------------------
(* SearchEngine.generateSnippet (search.ts:115-157).  A body is a sequence   *)
(* of pieces of WindowStep characters each: a piece is either WindowStep     *)
(* characters without a space (NoWord), or a word at its start, one space,   *)
(* and characters without a space up to WindowStep.  Every window the loop   *)
(* looks at starts where a piece starts.                                     *)

SnippetLength == 200
WindowStep == 50
TrimMargin == 20

NoWord == ""
QueryTerms == { "extruder", "stepper" }

toLowerCase(w) == IF w = "Extruder" THEN "extruder" ELSE w

WordLength(w) == IF w = "stepper" THEN 7 ELSE 8

RECURSIVE BodiesOf(_)
BodiesOf(n) ==
    IF n = 0 THEN { <<>> }
    ELSE LET shorter == BodiesOf(n - 1)
         IN shorter \cup { Append(b, c) : b \in shorter, c \in { "extruder", "Extruder", "stepper", NoWord } }

\* content.length
ContentLength(content) == WindowStep * Len(content)

\* content.substring(i, i + snippetLength), i a multiple of WindowStep: the
\* pieces it is made of
Substring(content, i) ==
    LET from == i \div WindowStep + 1
        to == IF i + SnippetLength < ContentLength(content)
              THEN (i + SnippetLength) \div WindowStep
              ELSE Len(content)
    IN SubSeq(content, from, to)

\* window.includes(term) for the window of lowerContent at i
WindowIncludes(content, i, term) ==
    \E n \in 1..Len(Substring(content, i)) :
        toLowerCase(Substring(content, i)[n]) = term

\* the values i takes in the loop
WindowPositions(content) ==
    { WindowStep * n : n \in { m \in 0..Len(content) :
        WindowStep * m < ContentLength(content) - SnippetLength } }

\* the score the forEach gives the window at i: one for every element of
\* queryTerms the window includes
\* bestPosition after the loop: the first position whose score is greater
\* than every score before it (and than 0)
BestPosition(content, queryTerms) ==
    LET positions == WindowPositions(content)
        score == [ i \in positions |-> (Cardinality({ n \in 1..Len(queryTerms) : WindowIncludes(content, i, queryTerms[n]) })) ]
        best == { i \in positions :
                    /\ score[i] > 0
                    /\ \A j \in positions :
                          \/ score[j] < score[i]
                          \/ score[j] = score[i] /\ i <= j }
    IN IF best = {} THEN 0 ELSE CHOOSE i \in best : TRUE

\* snippet.indexOf(' ') and snippet.lastIndexOf(' '): the space after the
\* word of the first (last = FALSE) or of the last piece that holds a word,
\* -1 without a word
IndexOfSpace(snippet, last) ==
    LET holding == { n \in 1..Len(snippet) : snippet[n] # NoWord }
    IN IF holding = {} THEN -1
       ELSE LET n == CHOOSE x \in holding :
                        \A y \in holding : IF last THEN y <= x ELSE x <= y
            IN WindowStep * (n - 1) + WordLength(snippet[n])

\* generateSnippet(content, query): where the snippet was taken, the words
\* left in it piece by piece, and whether "..." was put before and after it
generateSnippet(content, queryTerms) ==
    LET bestPosition == BestPosition(content, queryTerms)
        snippet == Substring(content, bestPosition)
        firstSpace == IndexOfSpace(snippet, FALSE)
        cutFront == /\ bestPosition > 0
                    /\ firstSpace > 0
                    /\ firstSpace < TrimMargin
        \* snippet.substring(firstSpace + 1) drops the word before the space,
        \* which is the word of the first piece
        front == IF cutFront THEN << NoWord >> \o Tail(snippet) ELSE snippet
        \* the three characters of "..." take the place of the word dropped
        \* and the margins are far from any other space
        lastSpace == IndexOfSpace(front, TRUE)
        cutBack == /\ bestPosition + SnippetLength < ContentLength(content)
                   /\ lastSpace > SnippetLength - TrimMargin
    IN [ position |-> bestPosition, words |-> front,
         before |-> cutFront, after |-> cutBack ]

GenerateSnippet ==
    /\ ret.op = "body"
    /\ ret' = [op |-> "generateSnippet", content |-> ret.content,
               queryTerms |-> ret.queryTerms,
               snippet |-> generateSnippet(ret.content, ret.queryTerms)]
    /\ UNCHANGED <<heap, index, docs, lastIndexed, now>>

\* query.toLowerCase().split(/\s+/) of a query of lower-case words with one
\* space between them
InitSnippet ==
    /\ heap = [h \in Handles |-> {}]
    /\ index = None
    /\ docs = EngineMap
    /\ lastIndexed = None
    /\ now = 1
    /\ ret \in { [op |-> "body", content |-> b, queryTerms |-> q] :
                   b \in BodiesOf(MaxChunks), q \in (UNION { [1..n -> QueryTerms] : n \in 1..MaxTerms }) }

NextSnippet == GenerateSnippet

SpecSnippet == InitSnippet /\ [][NextSnippet]_vars

------------------------------------------------------------------------------
(* DocumentParser.parseDirectory over a directory tree (parser.ts:17-93).    *)
(* A file is the sequence of the names on the way from the root to it.       *)

FileNames == { <<"a">> \o DotMd, <<"a">> \o DotMd \o DotMd,
               DotMd \o <<"a">> \o DotMd, <<"a", ".", "t">> }

TreeFiles == { << f >> : f \in FileNames }
                \cup { << d, f >> : d \in { <<"a">>, <<".", "a">>, <<"l", "i", "b">> }, f \in FileNames }

RECURSIVE TreesOf(_)
TreesOf(n) ==
    IF n = 0 THEN { {} }
    ELSE LET smaller == TreesOf(n - 1)
         IN smaller \cup { t \cup { f } : t \in smaller, f \in TreeFiles }

\* path.join of the names: the names with path.sep between them
RECURSIVE JoinPath(_)
JoinPath(file) ==
    IF Len(file) = 1 THEN file[1]
    ELSE file[1] \o <<"/">> \o JoinPath(Tail(file))

\* processDirectory goes into a directory unless its name starts with '.'
\* or is scripts, klippy or lib
\* entry.name.endsWith('.md')
\* the files processDirectory hands to parseFile
Handed(tree) ==
    { file \in tree :
        /\ \A n \in 1..(Len(file) - 1) :
              /\ file[n][1] # "."
              /\ file[n] \notin { <<"s", "c", "r", "i", "p", "t", "s">>,
                                  <<"k", "l", "i", "p", "p", "y">>,
                                  <<"l", "i", "b">> }
        /\ Len(file[Len(file)]) >= Len(DotMd)
        /\ SubSeq(file[Len(file)], Len(file[Len(file)]) - Len(DotMd) + 1,
                  Len(file[Len(file)])) = DotMd }

\* extractSection(relativePath): the first part of a path of several parts;
\* no file name of FileNames holds one of the words of parser.ts:120-147,
\* which leaves 'general' for a file of the root
extractSection(file) ==
    IF Len(file) > 1 /\ file[1] # <<>> THEN file[1]
    ELSE <<"g", "e", "n", "e", "r", "a", "l">>

\* parseDirectory(docsPath) on an existing directory: every file handed to
\* parseFile that can be read and parsed is set into this.docs under its
\* identifier; a file parseFile fails on is logged and left out.  The value
\* returned is this.docs, here the identifiers it holds.
ParseTree ==
    /\ ret.op = "tree"
    /\ LET parsed == Handed(ret.files) \ ret.failing
       IN ret' = [ op |-> "parseDirectory", files |-> ret.files,
                   failing |-> ret.failing, before |-> ret.before,
                   ids |-> ret.before \cup { DocId(JoinPath(f)) : f \in parsed },
                   sections |-> [ f \in parsed |-> extractSection(f) ] ]
    /\ UNCHANGED <<heap, index, docs, lastIndexed, now>>

\* the identifier of a document that an earlier parseDirectory of this parser
\* stored
InitTree ==
    /\ heap = [h \in Handles |-> {}]
    /\ index = None
    /\ docs = EngineMap
    /\ lastIndexed = None
    /\ now = 1
    /\ ret \in { [op |-> "tree", files |-> t, failing |-> f, before |-> b] :
                   t \in TreesOf(MaxFiles), f \in { {} } \cup { { x } : x \in TreeFiles },
                   b \in { {}, { <<"o">> } } }
    /\ ret.failing \subseteq ret.files

NextTree == ParseTree

SpecTree == InitTree /\ [][NextTree]_vars

------------------------------------------------------------------------------
(* KlipperMCPServer (search.ts:213-856): start-up, the tool-call handler and *)
(* the tool handlers.  In the specification of the server, ret holds the     *)
(* outcome of the last step of the process and, from parseDirectory on, the  *)
(* raw text of every document file (raw).                                    *)

\* the document handleLookup asks the engine for first: 'Config_Reference'
ConfigReference == 2

\* new GitError / ParsingError / NotFoundError / ValidationError(message,
\* context): a KlipperError with the name and the type of its class
KlipperError(name, type, message, context) ==
    [class |-> "KlipperError", name |-> name, type |-> type,
     message |-> message, context |-> context, originalError |-> "none"]

\* reading a property of the arguments when the request has none
NoArguments == PlainError("TypeError", "Cannot read properties of undefined")

\* what a handler does: it returns a response or throws; calls are the
\* calls of the search engine it made
Responds(text, calls) ==
    [status |-> "ok", error |-> NoFault, calls |-> calls,
     response |-> [isError |-> FALSE, text |-> text]]

Throws(error, calls) ==
    [status |-> "throw", error |-> error, calls |-> calls,
     response |-> [isError |-> FALSE, text |-> [kind |-> "none"]]]

\* searchEngine.search(query, options): the results, or the error thrown
searchOutcome(q, options) ==
    IF index = None
    THEN [status |-> "throw", results |-> <<>>,
          error |-> SearchError("Search index not initialized", "SearchEngine.search")]
    ELSE SearchBody(q, options)

\* what the result texts show of a document
Shown(document) ==
    [id |-> document.id, title |-> document.title, section |-> document.section]

\* handleSearch(input) once searchEngine.search has returned or thrown
SearchResponse(input, found) ==
    IF found.status = "throw" THEN Throws(found.error, << "search" >>)
    ELSE IF Len(found.results) = 0
    THEN Responds([kind |-> "No results found", query |-> input.query],
                  << "search" >>)
    ELSE Responds([kind |-> "Search Results", query |-> input.query,
                   results |-> [n \in 1..Len(found.results) |->
                       [document |-> Shown(found.results[n].document),
                        score |-> found.results[n].score]]],
                  << "search" >>)

\* handleSearch(input)
handleSearch(args) ==
    IF args = None THEN Throws(NoArguments, <<>>)
    ELSE SearchResponse(args[1],
             searchOutcome(args[1].query,
                 [limit |-> args[1].limit, section |-> args[1].section]))

\* handleLookup(input) from the search on (search.ts:529-580): not found,
\* the block of the best match, or the best match in full
LookupBySearch(input, raw, found) ==
    IF found.status = "throw"
    THEN Throws(found.error, << "getDocument", "search" >>)
    ELSE IF Len(found.results) = 0
    THEN Responds([kind |-> "not found", option |-> input.option],
                  << "getDocument", "search" >>)
    ELSE IF extractConfigSection(raw[found.results[1].document.id]) # None
    THEN Responds([kind |-> "Configuration: option",
                   source |-> Shown(found.results[1].document),
                   block |-> extractConfigSection(
                                raw[found.results[1].document.id])],
                  << "getDocument", "search" >>)
    ELSE Responds([kind |-> "document",
                   source |-> Shown(found.results[1].document),
                   content |-> raw[found.results[1].document.id]],
                  << "getDocument", "search" >>)

\* handleLookup(input) up to the search (search.ts:506-527): the block of
\* Config_Reference, or None when the search is to be run
LookupInReference(args, raw) ==
    IF Get(docs, ConfigReference) = None THEN None
    ELSE extractConfigSection(raw[ConfigReference])

handleLookupSearchFirst(args, raw) ==
    IF args = None THEN Throws(NoArguments, << "getDocument" >>)
    ELSE LookupBySearch(args[1], raw,
             searchOutcome(args[1].option, [limit |-> Some(10), section |-> None]))

\* handleLookup(input): Config_Reference first, then the best match of a
\* search, then that document in full
handleLookup(args, raw) ==
    IF args = None THEN Throws(NoArguments, << "getDocument" >>)
    ELSE IF LookupInReference(args, raw) # None
    THEN Responds([kind |-> "Configuration: [option]",
                   block |-> LookupInReference(args, raw)], << "getDocument" >>)
    ELSE LookupBySearch(args[1], raw,
             searchOutcome(args[1].option, [limit |-> Some(10), section |-> None]))

\* handleBrowse(input)
handleBrowse(args) ==
    IF args = None THEN Throws(NoArguments, <<>>)
    ELSE LET input == args[1]
             InSection(d) == d.section = input.section[1]
             all == [n \in 1..Cardinality(heap[docs]) |->
                       CorpusDoc(DocsArray(heap[docs])[n])]
         IN IF input.path # None
            THEN IF Get(docs, input.path[1]) = None
                 THEN Throws(KlipperError("NotFoundError", "NOT_FOUND_ERROR",
                                         "Document not found", "BrowseDocs"),
                             << "getDocument" >>)
                 ELSE Responds([kind |-> "document",
                                source |-> Shown(Get(docs, input.path[1])[1])],
                               << "getDocument" >>)
            ELSE IF input.section # None /\ input.section # Some(<<>>)
            THEN IF Len(SelectSeq(all, InSection)) = 0
                 THEN Responds([kind |-> "No documents found in section",
                                section |-> input.section[1]],
                               << "getDocumentsBySection" >>)
                 ELSE Responds([kind |-> "Documents in",
                                section |-> input.section[1],
                                documents |-> SelectSeq(all, InSection)],
                               << "getDocumentsBySection" >>)
            ELSE Responds([kind |-> "Klipper Documentation Browser",
                           sections |-> SortedSections(heap[docs]),
                           totalDocuments |-> Cardinality(heap[docs]),
                           totalWords |-> TotalWords(heap[docs])],
                          << "getSections", "getStats" >>)

\* handleStats()
\* the switch on the tool name
Dispatch(name, args, raw) ==
    CASE name = "search_klipper_docs" -> handleSearch(args)
      [] name = "get_config_option" -> handleLookup(args, raw)
      [] name = "browse_docs" -> handleBrowse(args)
      [] name = "get_index_stats" -> Responds([kind |-> "Documentation Index Statistics",
                      sections |-> SortedSections(heap[docs]),
                      totalDocuments |-> Cardinality(heap[docs]),
                      totalWords |-> TotalWords(heap[docs])], << "getStats" >>)
      [] OTHER -> Throws(KlipperError("ValidationError", "VALIDATION_ERROR",
                                     "Unknown tool", "CallToolRequest"), <<>>)

ToolResponsePropagating(outcome) == outcome.response

\* the try/catch of the tool-call handler: what it returns to the protocol
\* layer
ToolResponse(outcome) ==
    IF outcome.status = "throw"
    THEN [isError |-> TRUE,
          text |-> [kind |-> "Error: ",
                    message |-> handleError(outcome.error, "Tool").message]]
    ELSE outcome.response

\* The option a configuration is looked up for: in a raw text it is the label
\* of Marker, as a query it is the term k of the corpus.
\* the requests a client sends
ToolCalls ==
    { [name |-> "search_klipper_docs", arguments |-> a] :
        a \in { None } \cup
              { Some([query |-> q, limit |-> o.limit, section |-> o.section]) :
                  q \in FewQueries \cup { <<"m", "m">> }, o \in FewOptions } }
    \cup { [name |-> "get_config_option", arguments |-> a] :
        a \in { None, Some([option |-> <<"k">>]) } }
    \cup { [name |-> "browse_docs", arguments |-> a] :
        a \in { None } \cup
              { Some([path |-> p, section |-> x]) :
                  p \in { None } \cup { Some(i) : i \in DocIds },
                  x \in { None, Some(SecConfig), Some(<<"z">>) } } }
    \cup { [name |-> "get_index_stats", arguments |-> None],
           [name |-> "restart_printer", arguments |-> None] }

NoRaw == [i \in DocIds |-> << TextLine >>]

ProceedsRegardless(step) == ret.op = step

\* the statements of initialize's try block and of start run in order: the
\* next one runs when the one before it has returned normally
Proceeds(step) == ret.op = step /\ ret.status = "ok"

\* the outcome of a start-up step
StepOutcome(step, fault, context, raw) ==
    [op |-> step, status |-> IF fault = NoFault THEN "ok" ELSE "throw",
     error |-> IF fault = NoFault THEN NoFault ELSE handleError(fault, context),
     raw |-> raw]

\* await gitSync.initialize() (search.ts:819)
ServerSync(fault) ==
    /\ ret.op = "start"
    /\ ret' = StepOutcome("gitSync.initialize", fault, "GitSync.initialize", NoRaw)
    /\ UNCHANGED <<heap, index, docs, lastIndexed, now>>

\* await documentParser.parseDirectory(docsPath) (search.ts:823-824)
ServerParse(files, raw, fault) ==
    /\ Proceeds("gitSync.initialize")
    /\ heap' = IF fault = NoFault
               THEN [heap EXCEPT ![ParserMap] = @ \cup files] ELSE heap
    /\ ret' = StepOutcome("parseDirectory", fault, "DocumentParser.parseDirectory",
                          IF fault = NoFault THEN raw ELSE NoRaw)
    /\ UNCHANGED <<index, docs, lastIndexed, now>>

\* searchEngine.buildIndex(docs) (search.ts:828)
ServerBuild(fault) ==
    /\ Proceeds("parseDirectory")
    /\ docs' = ParserMap
    /\ index' = BuiltIndex(ParserMap, fault)
    /\ lastIndexed' = IF fault = NoFault THEN Some(now) ELSE lastIndexed
    /\ now' = IF fault = NoFault THEN now + 1 ELSE now
    /\ ret' = StepOutcome("buildIndex", fault, "SearchEngine.buildIndex", ret.raw)
    /\ UNCHANGED heap

\* await this.server.connect(transport) (search.ts:844-845)
ServerConnect(fault) ==
    /\ Proceeds("buildIndex")
    /\ ret' = StepOutcome("connect", fault, "Server.start", ret.raw)
    /\ UNCHANGED <<heap, index, docs, lastIndexed, now>>

\* initialize's catch rethrows, start rejects, and the catch of the main
\* entry point calls process.exit(1) (search.ts:834-838, 852-856)
ServerExit ==
    /\ ret.op \in { "gitSync.initialize", "parseDirectory", "buildIndex", "connect" }
    /\ ret.status = "throw"
    /\ ret' = [op |-> "exit", status |-> "exit", error |-> ret.error,
               raw |-> ret.raw, code |-> 1]
    /\ UNCHANGED <<heap, index, docs, lastIndexed, now>>

\* the transport is connected: requests reach the handlers
Connected == \/ ret.op = "connect" /\ ret.status = "ok"
             \/ ret.op = "callTool"

\* the CallToolRequestSchema handler (search.ts:335-363)
CallTool(request) ==
    /\ Connected
    /\ LET outcome == Dispatch(request.name, request.arguments, ret.raw)
       IN ret' = [op |-> "callTool", status |-> "ok", error |-> outcome.error,
                  raw |-> ret.raw, request |-> request,
                  calls |-> outcome.calls,
                  response |-> ToolResponse(outcome)]
    /\ UNCHANGED <<heap, index, docs, lastIndexed, now>>

InitServer ==
    /\ heap = [h \in Handles |-> {}]
    /\ index = None
    /\ docs = EngineMap
    /\ lastIndexed = None
    /\ now = 1
    /\ ret = [op |-> "start", status |-> "ok", error |-> NoFault, raw |-> NoRaw]

\* the raw texts a document file can hold: one with a block for the option,
\* one without
NextServer ==
    \/ \E fault \in { NoFault,
                       KlipperError("GitError", "GIT_ERROR",
                                    "Failed to clone repository", "GitSync.clone") } :
          ServerSync(fault)
    \/ \E files \in SUBSET DocIds, 
          raw \in [DocIds -> { << Marker, TextLine >>, << TextLine >> }],
          fault \in { NoFault,
                       KlipperError("ParsingError", "PARSING_ERROR",
                                    "Documentation directory not found",
                                    "DocumentParser.parseDirectory") } :
          ServerParse(files, raw, fault)
    \/ \E fault \in BuildFaults \cup { NoFault } : ServerBuild(fault)
    \/ \E fault \in { NoFault, PlainError("Error", "Transport failed to start") } :
          ServerConnect(fault)
    \/ ServerExit
    \/ \E request \in ToolCalls : CallTool(request)

SpecServer == InitServer /\ [][NextServer]_vars

------------------------------------------------------------------------------
(* Properties *)

\* what Index.search ranks for the query of the call in ret, on the index
\* the engine holds
Ranking == IndexSearch(index[1].snap, ret.query).results

\* the position of document id in a ranking (0: absent)
PositionIn(rs, id) ==
    IF \E n \in 1..Len(rs) : rs[n].ref = id
    THEN CHOOSE n \in 1..Len(rs) : rs[n].ref = id
    ELSE 0

Returned(id) == \E n \in 1..Len(ret.results) : ret.results[n].document.id = id

SearchReturned == ret.op = "search" /\ ret.status = "ok"

\* C1: a search on an engine on which no buildIndex has completed
\* successfully (lastIndexed was never set) throws the SearchError "Search
\* index not initialized" and returns no results, whatever the query and
\* the options.
C1_SearchBeforeBuildFails ==
    (ret.op = "search" /\ lastIndexed = None) =>
        /\ ret.status = "throw"
        /\ ret.results = <<>>
        /\ ret.error.class = "KlipperError"
        /\ ret.error.name = "SearchError"
        /\ ret.error.message = "Search index not initialized"

\* C1 witness: a search after a build that failed, no build having succeeded
C1_Witness ==
    /\ ret.op = "search"
    /\ lastIndexed = None
    /\ docs # EngineMap
    /\ heap[docs] # {}
    /\ ret.status = "throw"

\* C2: buildIndex is an atomic swap: after a buildIndex step the engine
\* holds either the previous pair (index, document store) or the pair of
\* the documents passed, never the index of one with the store of the
\* other.
C2_AtomicSwap ==
    [][ret'.op = "buildIndex" =>
          \/ index' = index /\ heap'[docs'] = heap[docs]
          \/ /\ index' = Some([snap |-> heap[ret'.documents]])
             /\ docs' = ret'.documents]_vars

\* C3: a buildIndex that fails leaves the index, the contents of the
\* document store the engine reads, and lastIndexed as they were.
C3_FailedBuildKeepsState ==
    [][(ret'.op = "buildIndex" /\ ret'.status = "throw") =>
          /\ index' = index
          /\ heap'[docs'] = heap[docs]
          /\ lastIndexed' = lastIndexed]_vars

\* C4: a fault raised during index construction is never swallowed:
\* buildIndex throws a KlipperError carrying the fault's message; a fault
\* that is a KlipperError is thrown as it is, any other Error is wrapped in
\* a SYSTEM_ERROR KlipperError whose originalError is the fault's name.
C4_FaultReported ==
    ret.op = "buildIndex" =>
        /\ ret.fault # NoFault => ret.status = "throw"
        /\ ret.status = "throw" =>
              /\ ret.fault # NoFault
              /\ ret.error.class = "KlipperError"
              /\ ret.error.message = ret.fault.message
              /\ ret.fault.class = "KlipperError" => ret.error = ret.fault
              /\ ret.fault.class = "Error" =>
                    /\ ret.error.type = "SYSTEM_ERROR"
                    /\ ret.error.originalError = ret.fault.name

\* C4 witness: a build on which construction raised a TypeError
C4_Witness ==
    /\ ret.op = "buildIndex"
    /\ ret.fault.name = "TypeError"
    /\ ret.status = "throw"
    /\ ret.error.originalError = "TypeError"

\* C5: on an index built from an empty document store, search returns the
\* empty sequence, without failing, for every query string.
C5_EmptyIndexNeverFails ==
    (ret.op = "search" /\ index # None /\ index[1].snap = {}) =>
        ret.status = "ok" /\ ret.results = <<>>

\* C6: on a built index search never fails because of the query text:
\* every query string returns a sequence of results.
C6_QueryNeverFails ==
    (ret.op = "search" /\ index # None) => ret.status = "ok"

\* C7: whenever options.section is given, every result's section equals it
\* exactly, and a document of the store that the index matches, that has
\* this section and scores at least the minimum is missing from the results
\* only by the cut at the limit, every result ranking above it.
C7_SectionGiven ==
    (SearchReturned /\ ret.options.section # None) =>
        /\ \A n \in 1..Len(ret.results) :
              ret.results[n].document.section = ret.options.section[1]
        /\ \A p \in 1..Len(Ranking) :
              ( /\ Ranking[p].score >= MinScore
                /\ Get(docs, Ranking[p].ref) # None
                /\ CorpusDoc(Ranking[p].ref).section = ret.options.section[1]
                /\ ~ Returned(Ranking[p].ref) )
              => \A n \in 1..Len(ret.results) :
                    PositionIn(Ranking, ret.results[n].document.id) < p

\* C8: for a limit N >= 0, search returns at most N results, and a document
\* that passed the filters is missing only when N results that rank above
\* it were returned.
C8_AtMostLimit ==
    (SearchReturned /\ ret.options.limit # None /\ ret.options.limit[1] >= 0) =>
        /\ Len(ret.results) <= ret.options.limit[1]
        /\ \A p \in 1..Len(Ranking) :
              ( /\ Ranking[p].score >= MinScore
                /\ ( HasSection(ret.options) =>
                       ( Get(docs, Ranking[p].ref) # None
                         /\ CorpusDoc(Ranking[p].ref).section
                               = ret.options.section[1] ) )
                /\ ~ Returned(Ranking[p].ref) )
              => /\ Len(ret.results) = ret.options.limit[1]
                 /\ \A n \in 1..Len(ret.results) :
                       PositionIn(Ranking, ret.results[n].document.id) < p

\* C9: no returned result scores below the configured minimum, and no
\* returned score is negative.
C9_MinScore ==
    SearchReturned =>
        \A n \in 1..Len(ret.results) :
            ret.results[n].score >= MinScore /\ ret.results[n].score >= 0

\* C9 witness: results are returned while the index ranked a document with
\* a positive score below the minimum
C9_Witness ==
    /\ SearchReturned
    /\ Len(ret.results) >= 1
    /\ \E p \in 1..Len(Ranking) :
          Ranking[p].score > 0 /\ Ranking[p].score < MinScore

\* C10: the results are in non-increasing order of score, and in the
\* relative order of the index's ranking.
C10_Ordered ==
    SearchReturned =>
        \A n \in 1..Len(ret.results), m \in 1..Len(ret.results) :
            n < m =>
              /\ ret.results[n].score >= ret.results[m].score
              /\ PositionIn(Ranking, ret.results[n].document.id) > 0
              /\ PositionIn(Ranking, ret.results[n].document.id)
                   < PositionIn(Ranking, ret.results[m].document.id)

\* C10 witness: two results of equal score, cut from a longer ranking
C10_Witness ==
    /\ SearchReturned
    /\ Len(ret.results) >= 2
    /\ Len(Ranking) > Len(ret.results)
    /\ \E n \in 1..(Len(ret.results) - 1) :
          ret.results[n].score = ret.results[n + 1].score

\* C11: in every returned result metadata.totalResults is the result count
\* before truncation: the number of entries of the ranking that passed the
\* section and minimum-score filters, even when that exceeds the limit.
C11_TotalBeforeTruncation ==
    SearchReturned =>
        \A n \in 1..Len(ret.results) :
            ret.results[n].metadata.totalResults
                = Len(ScoreFilter(SectionFilter(Ranking, ret.options)))

\* C12: field-weight ordering: a token that appears only in document D's
\* title scores D strictly higher than a token that appears only in a body,
\* with the same term frequency, scores its document.
C12_TitleAboveBody ==
    ret.op = "weigh" => ret.title > ret.body

\* C13: what the engine serves is fixed at build time: while an index is
\* held, the document store the engine reads holds exactly the documents
\* the index was built from, whatever the owner of the map does to it.
C13_FixedAtBuild ==
    index # None => heap[docs] = index[1].snap

\* C14: the document store is replaced wholesale on each parse: after
\* parseDirectory the parser's store holds exactly the documents of the
\* files of that parse.
C14_ReplacedWholesale ==
    [][\A files \in SUBSET DocIds :
          ParseDirectory(files) => heap'[ParserMap] = files]_vars

\* C15: document identifiers are an injective function of the relative
\* path: two different markdown files parsed in one parseDirectory never
\* receive the same identifier.
C15_IdInjective ==
    (ret.op = "parseFile" /\ ret.first # ret.second) => ret.firstId # ret.secondId

\* C16: buildIndex can be called any number of times: after a successful
\* buildIndex the engine holds the store passed to this call and the index
\* over exactly its documents, stamped with the time of this build, whatever
\* the earlier calls were given.
C16_LastBuildAlone ==
    (ret.op = "buildIndex" /\ ret.status = "ok") =>
        /\ docs = ret.documents
        /\ index = Some([snap |-> heap[ret.documents]])
        /\ lastIndexed = Some(now - 1)

\* C16 witness: the second successful build, of a store that holds documents
C16_Witness ==
    /\ ret.op = "buildIndex"
    /\ ret.status = "ok"
    /\ lastIndexed = Some(2)
    /\ heap[docs] # {}

\* C17: getStats returns the number of documents of the store, the sum of
\* their word counts, and the distinct section names in ascending order; on
\* an empty store 0, 0 and the empty sequence.
C17_Stats ==
    ret.op = "getStats" =>
        LET v == ret.value
            ids == heap[docs]
            WordSum[S \in SUBSET DocIds] ==
                IF S = {} THEN 0
                ELSE LET x == CHOOSE y \in S : \A z \in S : z <= y
                     IN WordSum[S \ {x}] + CorpusDoc(x).wordCount
        IN /\ ret.status = "ok"
           /\ v.totalDocuments = Cardinality(ids)
           /\ v.totalWords = WordSum[ids]
           /\ { v.sections[n] : n \in 1..Len(v.sections) }
                = { CorpusDoc(i).section : i \in ids }
           /\ \A n \in 1..Len(v.sections), m \in 1..Len(v.sections) :
                 n < m => v.sections[n] = SecConfig /\ v.sections[m] = SecGcodes
           /\ ids = {} => v.totalDocuments = 0 /\ v.totalWords = 0 /\ v.sections = <<>>

\* C17 witness: statistics of a store in which two documents share a section
C17_Witness ==
    /\ ret.op = "getStats"
    /\ ret.value.totalDocuments >= 3
    /\ Len(ret.value.sections) = 2

\* C18: getStats().lastIndexed is the timestamp of the most recent
\* successful buildIndex, and a sentinel that is no build timestamp (none
\* of the values the clock takes) when no build has succeeded.
C18_LastIndexed ==
    ret.op = "getStats" =>
        /\ lastIndexed # None => ret.value.lastIndexed = lastIndexed[1]
        /\ lastIndexed = None => ret.value.lastIndexed \notin 1..(MaxBuilds + 1)

\* C19: the read operations leave the index, the document store and
\* lastIndexed as they were, whether they return or throw.
C19_ReadsArePure ==
    [][ret'.op \in {"search", "getDocument", "getAllDocuments",
                    "getDocumentsBySection", "getSections", "getStats", "isReady"}
          => /\ index' = index
             /\ docs' = docs
             /\ heap' = heap
             /\ lastIndexed' = lastIndexed]_vars

\* C19 witness: a search that threw on a built index over documents, and
\* left them in place
C19_Witness ==
    /\ ret.op = "search"
    /\ ret.status = "throw"
    /\ index # None
    /\ index[1].snap # {}
    /\ heap[docs] # {}

\* C20: for a text holding a marker line "### [X...]" of the option,
\* extractConfigSection returns the block from that line up to, and not
\* including, the next heading of level 1, 2 or 3, or to the end of the
\* text.
C20_BlockToNextHeading ==
    ( /\ ret.op = "extractConfigSection"
      /\ \E i \in 1..Len(ret.content) : ret.content[i] = Marker )
    => LET text == ret.content
           k == Least({ i \in 1..Len(text) : text[i] = Marker }, 0)
           j == Least({ i \in (k + 1)..Len(text) :
                          text[i] \in { Marker, OtherMarker, Heading2, Heading1 } },
                      Len(text) + 1)
       IN ret.value = Some(SubSeq(text, k, j - 1))

\* C26: every document reference the index can return resolves to a
\* document of the engine's store, so search never fails with "Document
\* not found", and every result's document.id is the matched reference.
C26_RefsResolve ==
    /\ index # None => index[1].snap \subseteq heap[docs]
    /\ ret.op = "search" => ret.error.message # "Document not found"
    /\ SearchReturned =>
          \A n \in 1..Len(ret.results) :
              PositionIn(Ranking, ret.results[n].document.id) > 0

\* C29: readiness is monotonic: the index is absent until a buildIndex
\* succeeds, and once present it stays present after every operation, a
\* failed buildIndex included.
C29_ReadyMonotonic ==
    [][/\ index # None => index' # None
       /\ (index = None /\ index' # None)
             => ret'.op = "buildIndex" /\ ret'.status = "ok"]_vars

\* C29 witness: a buildIndex that failed on an engine that was ready
C29_Witness ==
    /\ ret.op = "buildIndex"
    /\ ret.status = "throw"
    /\ isReady

\* C21: extractConfigSection returns a non-empty block or the not-found
\* value, and not-found exactly when none of the three variants matches
\* either pattern.
C21_NotFoundIffNoMatch ==
    ret.op = "extractConfigSection" =>
        /\ ret.value # None => ret.value[1] \notin { <<>>, << Blank >> }
        /\ ret.value = None
             <=> \A v \in 1..Len(OptionVariants) :
                    /\ FirstMatch(ret.content, OptionVariants[v]) = 0
                    /\ FirstBareMatch(ret.content, OptionVariants[v]) = 0

\* C22: the bare-label pattern is only a fallback: whenever some variant has
\* a heading-style match in the text, the block returned is the
\* heading-style block of the first such variant.
C22_HeadingFirst ==
    ( /\ ret.op = "extractConfigSection"
      /\ \E v \in 1..Len(OptionVariants) :
            FirstMatch(ret.content, OptionVariants[v]) # 0 )
    => LET v == Least({ w \in 1..Len(OptionVariants) :
                          FirstMatch(ret.content, OptionVariants[w]) # 0 }, 0)
           k == FirstMatch(ret.content, OptionVariants[v])
       IN ret.value = Some(<< ret.content[k] >> \o HeaderBody(ret.content, k))

\* C23: the snippet starts at the window position whose window holds the
\* most distinct query terms, the earliest one on ties; a term repeated in
\* the query is counted once.
C23_BestWindow ==
    ( ret.op = "generateSnippet" /\ WindowPositions(ret.content) # {} )
    => LET distinct(i) ==
               Cardinality({ t \in QueryTerms :
                   /\ \E n \in 1..Len(ret.queryTerms) : ret.queryTerms[n] = t
                   /\ WindowIncludes(ret.content, i, t) })
       IN /\ ret.snippet.position \in WindowPositions(ret.content)
          /\ \A j \in WindowPositions(ret.content) :
                \/ distinct(j) < distinct(ret.snippet.position)
                \/ /\ distinct(j) = distinct(ret.snippet.position)
                   /\ ret.snippet.position <= j

\* C24: when the body holds a query term, whatever its case and wherever it
\* is, the snippet holds a query term.
C24_SnippetHoldsTerm ==
    ( /\ ret.op = "generateSnippet"
      /\ \E n \in 1..Len(ret.content), k \in 1..Len(ret.queryTerms) :
            toLowerCase(ret.content[n]) = ret.queryTerms[k] )
    => \E n \in 1..Len(ret.snippet.words), k \in 1..Len(ret.queryTerms) :
            toLowerCase(ret.snippet.words[n]) = ret.queryTerms[k]

\* C25: the store parseDirectory returns holds one document for every .md
\* file under the root outside hidden directories and directories named
\* scripts, klippy or lib, and none for any other file; the section of a
\* nested file is its first path component.
C25_OnePerMarkdownFile ==
    ret.op = "parseDirectory" =>
        /\ Cardinality(ret.ids) = Cardinality(Handed(ret.files))
        /\ \A f \in Handed(ret.files) :
              /\ DocId(JoinPath(f)) \in ret.ids
              /\ f \in DOMAIN ret.sections
              /\ Len(f) > 1 => ret.sections[f] = f[1]

\* C27: start-up is ordered: the transport is connected, and requests are
\* handled, only after repository sync, parsing and buildIndex have each
\* returned normally, in that order, so that every request finds the index
\* built; when one of them fails the process exits with status 1 and never
\* connects.
C27_StartupOrdered ==
    [][/\ Connected' => /\ index' # None
                        /\ docs' = ParserMap
                        /\ lastIndexed' # None
       /\ ret'.op = "parseDirectory"
             => ret.op = "gitSync.initialize" /\ ret.status = "ok"
       /\ ret'.op = "buildIndex"
             => ret.op = "parseDirectory" /\ ret.status = "ok"
       /\ (ret'.op = "connect" /\ ret.op # "connect")
             => ret.op = "buildIndex" /\ ret.status = "ok"
       /\ ( /\ ret.op \in { "gitSync.initialize", "parseDirectory", "buildIndex" }
            /\ ret.status = "throw" )
             => ret'.op = "exit" /\ ret'.code = 1
       /\ ret.op = "exit" => ret' = ret]_vars

\* C27 witness: a request handled by the connected server, on a built index
C27_Witness ==
    /\ ret.op = "callTool"
    /\ isReady
    /\ heap[docs] # {}

\* C28: the tool-call handler answers every request with a response: an
\* error raised while handling (an unknown tool, a document browse_docs does
\* not find, an error of search) becomes a response with isError and the
\* text 'Error: ' and the message; a search without results is a normal
\* response.
C28_ErrorsBecomeResponses ==
    ret.op = "callTool" =>
        LET name == ret.request.name
            args == ret.request.arguments
            r == ret.response
        IN /\ r.isError \in BOOLEAN
           /\ r.isError <=> ret.error # NoFault
           /\ r.isError => /\ r.text.kind = "Error: "
                           /\ r.text.message = ret.error.message
           /\ name \notin { "search_klipper_docs", "get_config_option",
                            "browse_docs", "get_index_stats" }
                 => r.isError /\ r.text.message = "Unknown tool"
           /\ ( /\ name = "browse_docs"
                /\ args # None
                /\ args[1].path # None
                /\ args[1].path[1] \notin heap[docs] )
                 => r.isError /\ r.text.message = "Document not found"
           /\ ( name = "search_klipper_docs" /\ args # None )
                 => LET found == searchOutcome(args[1].query,
                                     [limit |-> args[1].limit,
                                      section |-> args[1].section])
                    IN /\ found.status = "throw"
                            => r.isError /\ r.text.message = found.error.message
                       /\ ( found.status = "ok" /\ Len(found.results) = 0 )
                            => ~ r.isError /\ r.text.kind = "No results found"

\* C28 witness: a search the engine rejects, answered with an error response
C28_Witness ==
    /\ ret.op = "callTool"
    /\ ret.request.name = "search_klipper_docs"
    /\ ret.request.arguments # None
    /\ ret.response.isError

\* C30: get_config_option resolves in a fixed order: the block of
\* Config_Reference when that document exists and holds the option, without
\* a search; otherwise a search with limit 10, whose empty result is a 'not
\* found' text and not an error; otherwise the block of the top-ranked
\* result; otherwise the top-ranked document in full.
C30_LookupOrder ==
    ( /\ ret.op = "callTool"
      /\ ret.request.name = "get_config_option"
      /\ ret.request.arguments # None )
    => LET reference == IF ConfigReference \in heap[docs]
                        THEN extractConfigSection(ret.raw[ConfigReference])
                        ELSE None
           found == searchOutcome(ret.request.arguments[1].option,
                                  [limit |-> Some(10), section |-> None])
           r == ret.response
       IN IF reference # None
          THEN /\ ret.calls = << "getDocument" >>
               /\ ~ r.isError
               /\ r.text.kind = "Configuration: [option]"
               /\ r.text.block = reference
          ELSE /\ ret.calls = << "getDocument", "search" >>
               /\ ( found.status = "ok" /\ Len(found.results) = 0 )
                     => ~ r.isError /\ r.text.kind = "not found"
               /\ ( found.status = "ok" /\ Len(found.results) > 0 )
                     => LET top == found.results[1].document
                            block == extractConfigSection(ret.raw[top.id])
                        IN /\ ~ r.isError
                           /\ r.text.source.id = top.id
                           /\ IF block # None
                              THEN /\ r.text.kind = "Configuration: option"
                                   /\ r.text.block = block
                              ELSE /\ r.text.kind = "document"
                                   /\ r.text.content = ret.raw[top.id]

\* C30 witness: Config_Reference exists without the option, the search has
\* results and the block comes from the top-ranked one
C30_Witness ==
    /\ ret.op = "callTool"
    /\ ret.request.name = "get_config_option"
    /\ ConfigReference \in heap[docs]
    /\ ret.calls = << "getDocument", "search" >>
    /\ ~ ret.response.isError
    /\ ret.response.text.kind = "Configuration: option"

====
